---- MODULE Spec2Model ----
(***************************************************************************)
(* A model of scraper.py: the clock parser (parse_time), the global-time   *)
(* converter (convert_global_time), the event extractor (the row scan of   *)
(* process_one_game) and the event resampler                               *)
(* (make_uniform_time_intervals).                                          *)
(*                                                                         *)
(* Times are exact integers counted in seconds: a value x of the model is  *)
(* the float x / 60 (minutes) of the program.  A cell's text is a sequence *)
(* of symbols; the symbol "End of" stands for the literal prefix that      *)
(* END_OF_PERIOD_RE matches.                                               *)
(***************************************************************************)
EXTENDS Integers, Sequences, FiniteSets

VARIABLES
    pc,
    \* convert_global_time called directly
    readings, global_times,
    \* process_one_game
    away_rank, home_rank,
    period, previous_away_score, previous_home_score,
    away_score, home_score, cur_time, event_row, all_events,
    n_cells,
    \* history of the row scan (not program state)
    row_events, row_score_cells, row_changed,
    chrono, row_has_ts, last_p,
    \* make_uniform_time_intervals
    events, times, event_index, cur_event, t_index, new_events

timeVars == <<readings, global_times>>
gameVars == <<away_rank, home_rank, period,
              previous_away_score, previous_home_score, away_score,
              home_score, cur_time, event_row, all_events, n_cells>>
histVars == <<row_events, row_score_cells, row_changed,
              chrono, row_has_ts, last_p>>
resampleVars == <<events, times, event_index, cur_event, t_index, new_events>>
vars == <<pc, timeVars, gameVars, histVars, resampleVars>>

---------------------------------------------------------------------------
(* Bounds of the model *)

MaxPeriod == 5          \* periods of a reading given to convert_global_time
MaxCells == 5           \* cells of a play-by-play table, over all its rows
MaxEvents == 3          \* events given to make_uniform_time_intervals
MaxCheckpoints == 3     \* checkpoints given to make_uniform_time_intervals
MaxTime == 2            \* largest event time / checkpoint of a direct call
GridLen == 2            \* checkpoints of the caller's uniform grid
GridStep == 1200        \* spacing of the caller's uniform grid, in seconds

(* Program constants, in seconds *)

SecondsPerMinute == 60
HalfLength == 1200      \* 20.0 minutes
OvertimeLength == 300   \* 5.0 minutes

Unbound == -1           \* a local that no assignment has bound yet

Digits == {"0", "1"}

---------------------------------------------------------------------------
(* Helpers *)

Min(a, b) == IF a < b THEN a ELSE b
Max(a, b) == IF a > b THEN a ELSE b

SeqsUpTo(S, n) == UNION {[1..k -> S] : k \in 0..n}

DigitValue(d) == IF d = "0" THEN 0 ELSE 1

\* int(s) / float(s) of a non-empty digit string
RECURSIVE IntOf(_)
IntOf(s) ==
    IF Len(s) = 0 THEN 0
    ELSE 10 * IntOf(SubSeq(s, 1, Len(s) - 1)) + DigitValue(s[Len(s)])

\* re.match('[0-9]*<sep>[0-9]*$', text): digits, one separator, digits
MatchesSep(text, sep) ==
    \E i \in 1..Len(text) :
        /\ text[i] = sep
        /\ \A k \in 1..Len(text) : k # i => text[k] \in Digits

\* text.split(sep) of a text holding exactly one separator
Split(text, sep) ==
    LET i == CHOOSE k \in 1..Len(text) : text[k] = sep
    IN  <<SubSeq(text, 1, i - 1), SubSeq(text, i + 1, Len(text))>>

MatchesScore(text) == MatchesSep(text, "-")
MatchesTimestamp(text) == MatchesSep(text, ":")
MatchesEndOfPeriod(text) == Len(text) > 0 /\ text[1] = "End of"

\* int('') and float('') raise ValueError
RaisesValueError(text, sep) ==
    Len(Split(text, sep)[1]) = 0 \/ Len(Split(text, sep)[2]) = 0

\* lines 14-20, in seconds
parse_time(time_str) ==
    LET parts == Split(time_str, ":")
    IN  SecondsPerMinute * IntOf(parts[1]) + IntOf(parts[2])

\* lines 27-30
SinceStartOfHalf(relative_time, half) ==
    IF half < 3 THEN HalfLength - relative_time
    ELSE OvertimeLength - relative_time

\* lines 22-34
convert_global_time(relative_time, half) ==
    HalfLength * (half - 1) + SinceStartOfHalf(relative_time, half)

---------------------------------------------------------------------------
(* Values *)

NoneArg == {}
Some(x) == {x}
TheArg(opt) == CHOOSE x \in opt : TRUE

\* lines 153-165: the fields of an event that differ between the events of a
\* game; game_id, round_num, the names, the ranks and rank_diff are the same
\* in all of them
Event(t, a, h, d) ==
    [time |-> t, away_score |-> a, home_score |-> h, diff_score |-> d]

\* the fields of a record other than its time
Payload(e) == <<e.away_score, e.home_score, e.diff_score>>

NominalLength(p) == IF p < 3 THEN HalfLength ELSE OvertimeLength

\* whole-minute countdowns of a period's clock
ClockReadings ==
    [c : {SecondsPerMinute * m : m \in 0..(HalfLength \div SecondsPerMinute)},
     p : 1..MaxPeriod]

Ascending(s) == \A i \in 1..(Len(s) - 1) : s[i] <= s[i + 1]

AscendingTimes(n) == {s \in SeqsUpTo(0..MaxTime, n) : Ascending(s)}

\* a chronological score sheet: at each time one team scores a point
ScoreSheet(ts, scorers) ==
    [i \in 1..Len(ts) |->
        LET a == Cardinality({k \in 1..i : scorers[k] = "away"})
            h == Cardinality({k \in 1..i : scorers[k] = "home"})
        IN  Event(ts[i], a, h, a - h)]

EventLists ==
    {ScoreSheet(ts, sc) :
        <<ts, sc>> \in {q \in AscendingTimes(MaxEvents)
                               \X SeqsUpTo({"away", "home"}, MaxEvents) :
                            Len(q[1]) = Len(q[2]) /\ Len(q[1]) > 0}}

CheckpointLists == AscendingTimes(MaxCheckpoints)

\* times = [.25 * t for t in range(4 * 41)], on a coarser and shorter grid
TimesGrid == [i \in 1..GridLen |-> GridStep * (i - 1)]

---------------------------------------------------------------------------
(* Initial states: one per entry point of the module *)

NoReadings == readings = <<>> /\ global_times = <<>>

NoGame ==
    /\ away_rank = 0 /\ home_rank = 0
    /\ period = 1
    /\ previous_away_score = 0 /\ previous_home_score = 0
    /\ away_score = Unbound /\ home_score = Unbound
    /\ cur_time = Unbound
    /\ event_row = FALSE
    /\ all_events = <<>>
    /\ n_cells = 0
    /\ row_events = 0 /\ row_score_cells = 0 /\ row_changed = FALSE
    /\ chrono = TRUE /\ row_has_ts = FALSE
    /\ last_p = 1

NoResample ==
    /\ events = <<>> /\ times = <<>>
    /\ event_index = 0
    /\ cur_event = Event(0, 0, 0, 0)
    /\ t_index = 1
    /\ new_events = <<>>

\* convert_global_time(c, p) is about to be applied to two clock readings
InitTime ==
    /\ pc = "convert"
    /\ readings \in [1..2 -> ClockReadings]
    /\ global_times = <<>>
    /\ NoGame /\ NoResample

\* make_uniform_time_intervals(events, times), after lines 43-46
InitResample ==
    /\ pc = "resample"
    /\ NoReadings /\ NoGame
    /\ events \in EventLists
    /\ times \in CheckpointLists
    /\ event_index = 0
    /\ cur_event = events[1]
    /\ t_index = 1
    /\ new_events = <<>>

---------------------------------------------------------------------------
(* convert_global_time, applied to each reading *)

ConvertGlobalTime ==
    /\ pc = "convert"
    /\ global_times' =
           [i \in 1..2 |-> convert_global_time(readings[i].c, readings[i].p)]
    /\ pc' = "converted"
    /\ UNCHANGED <<readings, gameVars, histVars, resampleVars>>

---------------------------------------------------------------------------
(* make_uniform_time_intervals: the scan of lines 48-63 *)

\* line 51 stopping one event early
CanAdvance_StopEarly(index, n) == index < n - 2

\* line 51
CanAdvance(index, n) == index < n - 1

\* lines 59-60 without the assignment of line 60
CheckpointRecord_KeepTime(cur, t) == cur

\* lines 59-60: a copy of cur_event with its time set to t
CheckpointRecord(cur, t) == [cur EXCEPT !.time = t]

\* lines 49-53: one turn of the while loop that moves to the next event
ResampleAdvance ==
    /\ pc = "resample"
    /\ t_index <= Len(times)
    /\ times[t_index] > cur_event.time
    /\ CanAdvance(event_index, Len(events))
    /\ event_index' = event_index + 1
    /\ cur_event' = events[event_index' + 1]
    /\ UNCHANGED <<pc, timeVars, gameVars, histVars,
                   events, times, t_index, new_events>>

\* lines 49, 56, 59-61: the while loop ends (its condition fails, or the
\* break) and the record of checkpoint t is appended
ResampleEmit ==
    /\ pc = "resample"
    /\ t_index <= Len(times)
    /\ ~ (/\ times[t_index] > cur_event.time
          /\ CanAdvance(event_index, Len(events)))
    /\ new_events' =
           Append(new_events, CheckpointRecord(cur_event, times[t_index]))
    /\ t_index' = t_index + 1
    /\ UNCHANGED <<pc, timeVars, gameVars, histVars,
                   events, times, event_index, cur_event>>

\* line 63
ResampleReturn ==
    /\ pc = "resample"
    /\ t_index > Len(times)
    /\ pc' = "returned"
    /\ UNCHANGED <<timeVars, gameVars, histVars, resampleVars>>

make_uniform_time_intervals ==
    ResampleAdvance \/ ResampleEmit \/ ResampleReturn

SpecResample ==
    InitResample /\ [][make_uniform_time_intervals]_vars

---------------------------------------------------------------------------
(* process_one_game: the row scan of lines 129-166 and the return of       *)
(* lines 168-171.  The page (soup) is an input: its team ranks, and its    *)
(* rows of cells, which the scan reads one cell at a time.                 *)

\* The texts of the cells, one set per way the patterns of lines 9-12
\* take them.
ScoreTexts ==
    {<<"0", "-", "0">>, <<"1", "-", "0">>, <<"0", "-", "1">>,
     <<"1", "-", "1">>}

TimestampTexts == {<<"1", ":", "0">>, <<"0", ":", "1">>}

\* matched by SCORE_RE or TIMESTAMP_RE, with no digit on one side
EmptySideTexts ==
    {<<"1", "1", "-">>, <<"-", "0">>, <<"-">>,
     <<":", "1", "0">>, <<"1", ":">>, <<":">>}

MarkerTexts == {<<"End of">>, <<"End of", "1">>}

\* matched by no pattern
PlainTexts ==
    {<<>>, <<"1">>, <<"1", "End of">>, <<"0", "-", "1", ":", "0">>}

CellTexts ==
    ScoreTexts \cup TimestampTexts \cup EmptySideTexts \cup MarkerTexts
        \cup PlainTexts

\* lines 72-77: the ranks parse_team_names_and_rankings returns: the pair
\* of line 74, or the two numbers of the page (equal for two teams of the
\* same seed)
RankPairs == {<<0 - 1, 0 - 1>>, <<1, 2>>, <<2, 1>>, <<1, 1>>}

\* process_one_game(url, round_num, time_intervals), after lines 109-127
InitGame ==
    /\ pc = "rows"
    /\ NoReadings /\ NoResample
    /\ \E r \in RankPairs : away_rank = r[1] /\ home_rank = r[2]
    /\ period = 1
    /\ previous_away_score = 0 /\ previous_home_score = 0
    /\ away_score = Unbound /\ home_score = Unbound
    /\ cur_time = Unbound
    /\ event_row = FALSE
    /\ all_events = <<>>
    /\ n_cells = 0
    /\ row_events = 0 /\ row_score_cells = 0 /\ row_changed = FALSE
    /\ chrono = TRUE /\ row_has_ts = FALSE
    /\ last_p = 1

\* line 119 with the comparison turned round
HomeHigherRank_Reversed(hr, ar) == hr > ar

\* line 119
HomeHigherRank(hr, ar) == hr < ar

\* line 150
DiffScore(a, h) ==
    IF HomeHigherRank(home_rank, away_rank) THEN h - a ELSE a - h

\* (c1, p1) then (c2, p2) is the order of a game's clock
InGameOrder(c1, p1, c2, p2) == p2 > p1 \/ (p2 = p1 /\ c2 <= c1)

\* The history of the clock: chrono holds while the rows read so far are in
\* chronological order, each with at most one timestamp cell, its
\* countdown within the period's nominal length, and each score cell after
\* its row's timestamp cell and in the period of that timestamp; last_p is
\* the period of the last timestamp read (its countdown is cur_time) and
\* row_has_ts tells whether the row has shown its timestamp.  Once the
\* order is broken the rest of the history is dropped.
LastCountdown == IF cur_time = Unbound THEN HalfLength ELSE cur_time

ChronoStep(ok, has_ts, p) ==
    /\ chrono' = ok
    /\ row_has_ts' = (ok /\ has_ts)
    /\ last_p' = IF ok THEN p ELSE 0

\* lines 129-133: the next row of the page starts
NextRow ==
    /\ pc = "rows"
    /\ n_cells < MaxCells
    /\ pc' = "cols"
    /\ event_row' = FALSE
    /\ row_events' = 0 /\ row_score_cells' = 0 /\ row_changed' = FALSE
    /\ row_has_ts' = FALSE
    /\ UNCHANGED <<timeVars, resampleVars, away_rank, home_rank,
                   period, previous_away_score,
                   previous_home_score, away_score, home_score, cur_time,
                   all_events, n_cells, chrono, last_p>>

\* line 134: the row has no further cell
EndCols ==
    /\ pc = "cols"
    /\ pc' = "rows"
    /\ UNCHANGED <<timeVars, gameVars, histVars, resampleVars>>

\* lines 149-166, with the values the cell's earlier lines left in the
\* locals: the event is appended when event_row is set; cur_time has no
\* binding before the first timestamp cell
CompileEvent(er, a, h, ct, p) ==
    IF er /\ ct = Unbound
    THEN /\ pc' = "UnboundLocalError"
         /\ UNCHANGED <<all_events, row_events>>
    ELSE /\ pc' = "cols"
         /\ all_events' =
                IF er
                THEN Append(all_events,
                            Event(convert_global_time(ct, p), a, h,
                                  DiffScore(a, h)))
                ELSE all_events
         /\ row_events' = IF er THEN row_events + 1 ELSE row_events

\* lines 135-141 and 149-166: a cell that SCORE_RE matches
ScoreCell(text) ==
    /\ pc = "cols"
    /\ n_cells < MaxCells
    /\ MatchesScore(text)
    /\ ~ RaisesValueError(text, "-")
    /\ LET a == IntOf(Split(text, "-")[1])
           h == IntOf(Split(text, "-")[2])
           er == a # previous_away_score \/ h # previous_home_score
       IN  /\ away_score' = a
           /\ home_score' = h
           /\ event_row' = er
           /\ previous_away_score' = a
           /\ previous_home_score' = h
           /\ row_changed' = IF row_score_cells = 0 THEN er ELSE row_changed
           /\ CompileEvent(er, a, h, cur_time, period)
    /\ n_cells' = n_cells + 1
    /\ row_score_cells' = row_score_cells + 1
    /\ ChronoStep(chrono /\ row_has_ts /\ period = last_p, row_has_ts, last_p)
    /\ UNCHANGED <<timeVars, resampleVars, away_rank, home_rank,
                   period, cur_time>>

\* lines 143-144 and 149-166: a cell that TIMESTAMP_RE matches
TimestampCell(text) ==
    /\ pc = "cols"
    /\ n_cells < MaxCells
    /\ MatchesTimestamp(text)
    /\ ~ RaisesValueError(text, ":")
    /\ cur_time' = parse_time(text)
    /\ CompileEvent(event_row, away_score, home_score, cur_time', period)
    /\ n_cells' = n_cells + 1
    /\ ChronoStep(/\ chrono
                  /\ ~ row_has_ts /\ row_score_cells = 0
                  /\ cur_time' <= NominalLength(period)
                  /\ InGameOrder(LastCountdown, last_p, cur_time', period),
                  TRUE, period)
    /\ UNCHANGED <<timeVars, resampleVars, away_rank, home_rank,
                   period, previous_away_score,
                   previous_home_score, away_score, home_score, event_row,
                   row_score_cells, row_changed>>

\* lines 146-147 and 149-166: a cell that END_OF_PERIOD_RE matches
EndOfPeriodCell(text) ==
    /\ pc = "cols"
    /\ n_cells < MaxCells
    /\ MatchesEndOfPeriod(text)
    /\ period' = period + 1
    /\ CompileEvent(event_row, away_score, home_score, cur_time, period')
    /\ n_cells' = n_cells + 1
    /\ UNCHANGED <<timeVars, resampleVars, away_rank, home_rank,
                   previous_away_score, previous_home_score,
                   away_score, home_score, cur_time, event_row,
                   row_score_cells, row_changed, chrono, row_has_ts,
                   last_p>>

\* lines 149-166: a cell that no pattern matches
OtherCell(text) ==
    /\ pc = "cols"
    /\ n_cells < MaxCells
    /\ ~ MatchesScore(text)
    /\ ~ MatchesTimestamp(text)
    /\ ~ MatchesEndOfPeriod(text)
    /\ CompileEvent(event_row, away_score, home_score, cur_time, period)
    /\ n_cells' = n_cells + 1
    /\ UNCHANGED <<timeVars, resampleVars, away_rank, home_rank,
                   period, previous_away_score,
                   previous_home_score, away_score, home_score, cur_time,
                   event_row, row_score_cells, row_changed, chrono,
                   row_has_ts, last_p>>

\* line 136 (int('')) or lines 144, 20 (float('')): the cell matches
\* SCORE_RE or TIMESTAMP_RE with no digit on one side of the separator
MalformedCell(text) ==
    /\ pc = "cols"
    /\ n_cells < MaxCells
    /\ \/ MatchesScore(text) /\ RaisesValueError(text, "-")
       \/ MatchesTimestamp(text) /\ RaisesValueError(text, ":")
    /\ pc' = "ValueError"
    /\ UNCHANGED <<timeVars, gameVars, histVars, resampleVars>>

\* The argument time_intervals is read at line 168 only; the model draws
\* it there: None, or the caller's grid of line 215.
TimeIntervals == {NoneArg, Some(TimesGrid)}

\* lines 168-169
ReturnEvents ==
    /\ pc = "rows"
    /\ \E time_intervals \in TimeIntervals : time_intervals = NoneArg
    /\ pc' = "returned"
    /\ UNCHANGED <<timeVars, gameVars, histVars, resampleVars>>

\* lines 170-171 and 43-46: make_uniform_time_intervals is entered with
\* the game's events
CallResample ==
    /\ pc = "rows"
    /\ all_events # <<>>
    /\ \E time_intervals \in TimeIntervals :
        /\ time_intervals # NoneArg
        /\ times' = TheArg(time_intervals)
    /\ pc' = "resample"
    /\ events' = all_events
    /\ event_index' = 0
    /\ cur_event' = all_events[1]
    /\ t_index' = 1
    /\ new_events' = <<>>
    /\ UNCHANGED <<timeVars, gameVars, histVars>>

\* lines 170-171 and 46: events[0] of an empty list
CallResampleEmpty ==
    /\ pc = "rows"
    /\ all_events = <<>>
    /\ \E time_intervals \in TimeIntervals : time_intervals # NoneArg
    /\ pc' = "IndexError"
    /\ UNCHANGED <<timeVars, gameVars, histVars, resampleVars>>

process_one_game ==
    \/ NextRow
    \/ EndCols
    \/ \E text \in CellTexts :
        \/ ScoreCell(text)
        \/ TimestampCell(text)
        \/ EndOfPeriodCell(text)
        \/ OtherCell(text)
        \/ MalformedCell(text)
    \/ ReturnEvents
    \/ CallResample
    \/ CallResampleEmpty

Init == InitTime \/ InitGame

Next == ConvertGlobalTime \/ process_one_game \/ make_uniform_time_intervals

Spec == Init /\ [][Next]_vars

---------------------------------------------------------------------------
(* Properties of convert_global_time and process_one_game, under Spec *)

\* the global time the period rule gives: 20 minutes for each of the first
\* two periods, 5 minutes for each period after them
PeriodRuleTime(c, p) ==
    HalfLength * Min(p - 1, 2) + OvertimeLength * Max(p - 3, 0)
        + (NominalLength(p) - c)

\* C1: for every period p >= 1 and countdown c within the period's nominal
\* length, convert_global_time(c, p) is
\* 20*min(p-1, 2) + 5*max(p-3, 0) + (nominal_length(p) - c).
C1_PeriodRule ==
    pc = "converted" =>
        \A i \in 1..2 :
            readings[i].c <= NominalLength(readings[i].p) =>
                global_times[i] = PeriodRuleTime(readings[i].c, readings[i].p)

\* C3: a finished row with one score cell appended exactly one event when
\* the cell's score differs from the previously recorded score, wherever the
\* cell stands in the row, and no event when it equals it.
C3_OneEventPerScoreChange ==
    (pc = "rows" /\ row_score_cells = 1) =>
        row_events = (IF row_changed THEN 1 ELSE 0)

\* C5: with time_intervals, every checkpoint earlier than the game's first
\* score change yields a record with away_score = 0 and home_score = 0.
C5_ZeroBeforeFirstChange ==
    \A i \in 1..Len(new_events) :
        (all_events # <<>> /\ times[i] < all_events[1].time) =>
            new_events[i].away_score = 0 /\ new_events[i].home_score = 0

\* C6: no cell text raises an error out of process_one_game.
C6_NoCellAborts == pc # "ValueError"

\* C9: every event's diff_score is home_score - away_score when
\* home_rank < away_rank, and away_score - home_score otherwise, of the
\* scores stored in the same event.
C9_DiffScoreConvention ==
    \A i \in 1..Len(all_events) :
        all_events[i].diff_score =
            (IF home_rank < away_rank
             THEN all_events[i].home_score - all_events[i].away_score
             ELSE all_events[i].away_score - all_events[i].home_score)

\* a game whose home team is better ranked, with an event whose scores differ
C9_Witness ==
    /\ home_rank < away_rank
    /\ \E i \in 1..Len(all_events) :
        /\ all_events[i].home_score # all_events[i].away_score
        /\ all_events[i].diff_score =
               all_events[i].home_score - all_events[i].away_score

TimeAscending(evs) ==
    \A i \in 1..(Len(evs) - 1) : evs[i].time <= evs[i + 1].time

\* C10: global time is monotonic in game order, for countdowns within their
\* periods' nominal lengths; and for rows in chronological order with the
\* timestamp cell before the score cell, the event list is in
\* non-decreasing time order.
C10_EventsInTimeOrder ==
    /\ (/\ pc = "converted"
        /\ \A i \in 1..2 : readings[i].c <= NominalLength(readings[i].p)
        /\ InGameOrder(readings[1].c, readings[1].p,
                       readings[2].c, readings[2].p))
           => global_times[2] >= global_times[1]
    /\ chrono => TimeAscending(all_events)

---------------------------------------------------------------------------
(* Properties of make_uniform_time_intervals, under SpecResample *)

\* the index (from 1) of the last event at or before t
LastAtOrBefore(t) ==
    CHOOSE k \in 1..Len(events) :
        /\ events[k].time <= t
        /\ \A j \in (k + 1)..Len(events) : events[j].time > t

\* the index (from 1) of the last event whose time is t
LastAt(t) ==
    CHOOSE k \in 1..Len(events) :
        /\ events[k].time = t
        /\ \A j \in (k + 1)..Len(events) : events[j].time # t

\* C2: every checkpoint at or after the first event's time gets the fields
\* (other than time) of the last event at or before the checkpoint.
C2_CarryForward ==
    \A i \in 1..Len(new_events) :
        times[i] >= events[1].time =>
            Payload(new_events[i]) = Payload(events[LastAtOrBefore(times[i])])

\* C4: when several events share the time T of a checkpoint, the checkpoint
\* gets the scores of the last of them in input order.
C4_LastWriteWins ==
    \A i \in 1..Len(new_events) :
        Cardinality({k \in 1..Len(events) : events[k].time = times[i]}) >= 2 =>
            Payload(new_events[i]) = Payload(events[LastAt(times[i])])

\* C7: the result holds exactly one record per checkpoint, and the i-th
\* record's time is the i-th checkpoint.
C7_OneRecordPerCheckpoint ==
    /\ \A i \in 1..Len(new_events) : new_events[i].time = times[i]
    /\ Len(new_events) = t_index - 1
    /\ pc = "returned" => Len(new_events) = Len(times)

\* a finished call with a checkpoint before the first event, a repeated
\* checkpoint and a checkpoint after the last event
C7_Witness ==
    /\ pc = "returned"
    /\ Len(times) >= 3
    /\ times[1] < events[1].time
    /\ times[1] = times[2]
    /\ times[Len(times)] > events[Len(events)].time
    /\ Len(new_events) = Len(times)

C8_Clamped ==
    /\ event_index \in 0..(Len(events) - 1)
    /\ \A i \in 1..Len(new_events) :
        /\ times[i] < events[1].time =>
               Payload(new_events[i]) = Payload(events[1])
        /\ times[i] > events[Len(events)].time =>
               Payload(new_events[i]) = Payload(events[Len(events)])

\* C8: a checkpoint strictly before the first event gets a copy of the first
\* event, a checkpoint strictly after the last event gets a copy of the last
\* event, and the event cursor never decreases and stays within
\* 0 .. len(events) - 1.
C8_ClampAndCursor ==
    [](C8_Clamped) /\ [][event_index' >= event_index]_vars

\* a finished call over several events that clamped a checkpoint below the
\* first event and one above the last, the cursor having moved
C8_Witness ==
    /\ pc = "returned"
    /\ Len(events) >= 2
    /\ event_index = Len(events) - 1
    /\ \E i \in 1..Len(times) : times[i] < events[1].time
    /\ \E i \in 1..Len(times) : times[i] > events[Len(events)].time

====
